---------------------------- MODULE Spec2Model ----------------------------
(***************************************************************************)
(* Model of the light-sequence generator xmas_tree_gen (src/xmas_tree_gen/  *)
(* src/main.rs): the driver `main`, the hue wheel `saturated_color` and the *)
(* eight effect functions.                                                  *)
(*                                                                          *)
(* Numbers.  The program computes in f32.  TLC has only (32-bit) integers,  *)
(* so an f32 value is modelled as an exact fraction <<n, d>> in lowest      *)
(* terms with d > 0, plus the three non-finite values the program can       *)
(* produce by dividing by zero: <<1, 0>> (+inf), <<-1, 0>> (-inf) and       *)
(* <<0, 0>> (NaN).  The decimal literals of the source (0.45, 0.15, ...)    *)
(* are taken at their decimal value and every operation is exact: the       *)
(* rounding of f32 is NOT modelled.  Integer (usize) arithmetic is modelled *)
(* as such, with Rust's panics (division by zero, subtraction below zero,   *)
(* unwrap of None, index out of range) as explicit outcomes.                *)
(***************************************************************************)
EXTENDS Integers, Sequences, FiniteSets, TLC

VARIABLES
    pc,            \* position of `main`: "start", "header", "loop", "done"
    effect,        \* opt.effect, the effect name
    coords,        \* the loaded point cloud, a sequence of <<x, y, z>>
    total_frames,  \* opt.len
    frame,         \* the loop variable of `for frame in 0..opt.len`
    header,        \* the header record written to the CSV (<<>> before)
    rows,          \* the frame records written to the CSV so far
    result,        \* "running", "ok" (main returned Ok(())) or a panic
    calls,         \* number of invocations of the effect function
    reported,      \* the name printed by `Unknown effect: {}` ("" if none)
    computed,      \* frame index -> result of one effect call (frame workers)
    hue,           \* the argument handed to saturated_color (hue harness)
    color          \* the colour saturated_color returned (hue harness)

vars == <<pc, effect, coords, total_frames, frame, header, rows, result,
          calls, reported, computed, hue, color>>

-----------------------------------------------------------------------------
(* f32 values as exact fractions                                           *)

Abs(x) == IF x < 0 THEN -x ELSE x

Sgn(x) == IF x < 0 THEN -1 ELSE IF x > 0 THEN 1 ELSE 0

RECURSIVE GCD(_, _)
GCD(a, b) == IF b = 0 THEN a ELSE GCD(b, a % b)

NaN == <<0, 0>>

Inf(s) == <<s, 0>>

\* the fraction n/d (d # 0) in lowest terms with a positive denominator
Frac(n, d) ==
    LET g == GCD(Abs(n), Abs(d))
        s == IF d < 0 THEN -1 ELSE 1
    IN  <<s * (n \div g), s * (d \div g)>>

IsNaN(a) == a[2] = 0 /\ a[1] = 0

IsInf(a) == a[2] = 0 /\ a[1] # 0

IsFinite(a) == a[2] > 0

Neg(a) == <<-a[1], a[2]>>

Num(n) == <<n, 1>>

FAdd(a, b) ==
    IF IsNaN(a) \/ IsNaN(b) THEN NaN
    ELSE IF IsInf(a) THEN (IF IsInf(b) /\ b[1] # a[1] THEN NaN ELSE a)
    ELSE IF IsInf(b) THEN b
    ELSE LET g == GCD(a[2], b[2])
         IN  Frac(a[1] * (b[2] \div g) + b[1] * (a[2] \div g),
                  (a[2] \div g) * b[2])

FSub(a, b) == FAdd(a, Neg(b))

FMul(a, b) ==
    IF IsNaN(a) \/ IsNaN(b) THEN NaN
    ELSE IF IsInf(a) \/ IsInf(b)
         THEN (IF a[1] = 0 \/ b[1] = 0 THEN NaN ELSE Inf(Sgn(a[1]) * Sgn(b[1])))
    ELSE LET g1 == GCD(Abs(a[1]), b[2])
             g2 == GCD(Abs(b[1]), a[2])
         IN  IF a[1] = 0 \/ b[1] = 0 THEN Num(0)
             ELSE <<(a[1] \div g1) * (b[1] \div g2),
                    (a[2] \div g2) * (b[2] \div g1)>>

FDiv(a, b) ==
    IF IsNaN(a) \/ IsNaN(b) THEN NaN
    ELSE IF IsInf(b) THEN (IF IsInf(a) THEN NaN ELSE Num(0))
    ELSE IF IsInf(a) THEN Inf(a[1] * (IF b[1] < 0 THEN -1 ELSE 1))
    ELSE IF b[1] = 0 THEN (IF a[1] = 0 THEN NaN ELSE Inf(Sgn(a[1])))
    ELSE FMul(a, Frac(b[2], b[1]))

\* a < b; false when either is NaN, as every f32 comparison is
FLt(a, b) ==
    IF IsNaN(a) \/ IsNaN(b) THEN FALSE
    ELSE IF IsInf(a) THEN a[1] < 0 /\ ~(IsInf(b) /\ b[1] < 0)
    ELSE IF IsInf(b) THEN b[1] > 0
    ELSE a[1] * b[2] < b[1] * a[2]

FGt(a, b) == FLt(b, a)

FGe(a, b) == ~IsNaN(a) /\ ~IsNaN(b) /\ ~FLt(a, b)

\* f32::max and f32::min: the other operand when one is NaN
FMax(a, b) == IF IsNaN(a) THEN b ELSE IF IsNaN(b) THEN a ELSE IF FLt(a, b) THEN b ELSE a

FMin(a, b) == IF IsNaN(a) THEN b ELSE IF IsNaN(b) THEN a ELSE IF FLt(b, a) THEN b ELSE a

\* floor of a finite fraction, as an integer
IFloor(a) ==
    IF a[1] >= 0 THEN a[1] \div a[2] ELSE -((-a[1] + a[2] - 1) \div a[2])

\* truncation toward zero of a finite fraction, as an integer
ITrunc(a) == IF a[1] >= 0 THEN a[1] \div a[2] ELSE -((-a[1]) \div a[2])

\* f32::floor
FFloor(a) == IF IsFinite(a) THEN Num(IFloor(a)) ELSE a

\* f32::fract, self - self.trunc(): it keeps the sign of its argument
FFract(a) ==
    IF IsFinite(a) THEN FSub(a, Num(ITrunc(a))) ELSE NaN

\* the % of f32 (fmod): the remainder has the sign of the dividend
FRem(a, b) ==
    IF ~IsFinite(a) \/ IsNaN(b) THEN NaN
    ELSE IF IsInf(b) THEN a
    ELSE IF b[1] = 0 THEN NaN
    ELSE FSub(a, FMul(Num(ITrunc(FDiv(a, b))), b))

\* `v as usize` / `v as i32` of a float: truncation, NaN to 0 (the model
\* never casts a value outside the integer range)
AsInt(a) == IF IsFinite(a) THEN ITrunc(a) ELSE 0

AsUsize(a) == IF IsFinite(a) /\ a[1] > 0 THEN ITrunc(a) ELSE 0

-----------------------------------------------------------------------------
(* The hue wheel                                                            *)

Black == <<Num(0), Num(0), Num(0)>>

\* saturated_color with the fourth sector rising instead of falling
saturated_color_rising(h) ==
    LET r == FMul(FFract(h), Num(6))
    IN  IF FLt(r, Num(1)) THEN <<Num(1), r, Num(0)>>
        ELSE IF FLt(r, Num(2)) THEN <<FSub(Num(2), r), Num(1), Num(0)>>
        ELSE IF FLt(r, Num(3)) THEN <<Num(0), Num(1), FSub(r, Num(2))>>
        ELSE IF FLt(r, Num(4)) THEN <<Num(0), FSub(r, Num(3)), Num(1)>>
        ELSE IF FLt(r, Num(5)) THEN <<FSub(r, Num(4)), Num(0), Num(1)>>
        ELSE <<Num(1), Num(0), FSub(Num(6), r)>>

saturated_color(h) ==
    LET r == FMul(FFract(h), Num(6))
    IN  IF FLt(r, Num(1)) THEN <<Num(1), r, Num(0)>>
        ELSE IF FLt(r, Num(2)) THEN <<FSub(Num(2), r), Num(1), Num(0)>>
        ELSE IF FLt(r, Num(3)) THEN <<Num(0), Num(1), FSub(r, Num(2))>>
        ELSE IF FLt(r, Num(4)) THEN <<Num(0), FSub(Num(4), r), Num(1)>>
        ELSE IF FLt(r, Num(5)) THEN <<FSub(r, Num(4)), Num(0), Num(1)>>
        ELSE <<Num(1), Num(0), FSub(Num(6), r)>>

-----------------------------------------------------------------------------
(* Results of one effect call: the colour row, or the panic that ended it  *)

Ok(row) == [panic |-> "none", row |-> row]

Panic(p) == [panic |-> p, row |-> <<>>]

\* coords.iter().map(|coord| coord.2).reduce(f32::max): <<>> stands for None
RECURSIVE ReduceMaxZ(_, _, _)
ReduceMaxZ(cs, i, acc) ==
    IF i > Len(cs) THEN acc ELSE ReduceMaxZ(cs, i + 1, FMax(acc, cs[i][3]))

HasMaxHeight(cs) == Len(cs) > 0

max_height_of(cs) == ReduceMaxZ(cs, 2, cs[1][3])

-----------------------------------------------------------------------------
(* fill-up                                                                  *)

desired_frames_per_fill == 60

hue_step == Frac(45, 100)

\* line 107
fill_complete_fills(tf) == tf \div desired_frames_per_fill

\* line 108
fill_frames_per_fill(tf) == tf \div fill_complete_fills(tf)

\* fill_segment rounding to the nearest segment instead of down
fill_segment_rounded(f, tf) ==
    (f * fill_complete_fills(tf) + tf \div 2) \div tf

\* line 110: color_seed0, the segment of frame f
fill_segment(f, tf) == (f * fill_complete_fills(tf)) \div tf

\* line 115: base_frame, the first frame of the segment of frame f
fill_base_frame(f, tf) ==
    (fill_segment(f, tf) * tf) \div fill_complete_fills(tf)

\* line 116: height, the threshold of frame f
fill_threshold(cs, f, tf) ==
    FDiv(FMul(Num(f - fill_base_frame(f, tf)), max_height_of(cs)),
         Num(fill_frames_per_fill(tf)))

\* fill_up with the two colours exchanged: points above the threshold get
\* color1
fill_up_swapped(cs, f, tf) ==
    IF fill_complete_fills(tf) = 0 THEN Panic("divide_by_zero")
    ELSE
    LET color_seed0 == fill_segment(f, tf)
        color_seed1 == (color_seed0 + 1) % fill_complete_fills(tf)
        color0 == saturated_color(FMul(Num(color_seed0), hue_step))
        color1 == saturated_color(FMul(Num(color_seed1), hue_step))
    IN  IF ~HasMaxHeight(cs) THEN Panic("unwrap_none")
        ELSE IF f < fill_base_frame(f, tf) THEN Panic("subtract_overflow")
        ELSE
        LET height == fill_threshold(cs, f, tf)
        IN  Ok([i \in 1..Len(cs) |->
                  IF FGt(cs[i][3], height) THEN color1 ELSE color0])

fill_up(cs, f, tf) ==
    IF fill_complete_fills(tf) = 0 THEN Panic("divide_by_zero")
    ELSE
    LET color_seed0 == fill_segment(f, tf)
        color_seed1 == (color_seed0 + 1) % fill_complete_fills(tf)
        color0 == saturated_color(FMul(Num(color_seed0), hue_step))
        color1 == saturated_color(FMul(Num(color_seed1), hue_step))
    IN  IF ~HasMaxHeight(cs) THEN Panic("unwrap_none")
        ELSE IF f < fill_base_frame(f, tf) THEN Panic("subtract_overflow")
        ELSE
        LET height == fill_threshold(cs, f, tf)
        IN  Ok([i \in 1..Len(cs) |->
                  IF FGt(cs[i][3], height) THEN color0 ELSE color1])

-----------------------------------------------------------------------------
(* snake                                                                    *)

snake_len == 20

snake_hue_frames == 60

Scale(c, f) == <<FMul(c[1], f), FMul(c[2], f), FMul(c[3], f)>>

\* snake with the window position not wrapped around the point count
snake_unwrapped(cs, f, tf) ==
    LET c == saturated_color(FDiv(Num(f), Num(snake_hue_frames)))
    IN  Ok([i \in 1..Len(cs) |->
              LET index == (i - 1) + f
              IN  IF index < snake_len
                  THEN Scale(c, FSub(Num(1), FDiv(Num(index), Num(snake_len))))
                  ELSE Black])

snake(cs, f, tf) ==
    LET c == saturated_color(FDiv(Num(f), Num(snake_hue_frames)))
    IN  Ok([i \in 1..Len(cs) |->
              LET index == ((i - 1) + f) % Len(cs)
              IN  IF index < snake_len
                  THEN Scale(c, FSub(Num(1), FDiv(Num(index), Num(snake_len))))
                  ELSE Black])

-----------------------------------------------------------------------------
(* fall-down and fall-down-rainbow: fall_down (lines 139-184) and           *)
(* fall_down_rainbow (lines 186-237) hold the same cycle and layer          *)
(* computation twice; the model states it once.                             *)

num_layers == 8

pause_frames == 10

fall_speed == Frac(15, 100)

layer_height_of(max_height) == FDiv(max_height, Num(num_layers))

\* frames_per_cycle, from total_dist
fall_frames_per_cycle(max_height) ==
    LET layer_height == layer_height_of(max_height)
        total_dist == FAdd(FMul(FMul(FAdd(max_height, layer_height),
                                     Num(num_layers)), Frac(1, 2)),
                           max_height)
    IN  FAdd(FMul(Num(pause_frames), FAdd(Num(num_layers), Num(1))),
             FDiv(total_dist, fall_speed))

\* total_cycles, the quantized cycle count
fall_total_cycles(max_height, tf) ==
    FFloor(FDiv(Num(tf), fall_frames_per_cycle(max_height)))

\* scaled_frame before it is reduced modulo frames_per_cycle
fall_scaled_frame(max_height, f, tf) ==
    LET frames_per_cycle == fall_frames_per_cycle(max_height)
        total_cycles == fall_total_cycles(max_height, tf)
        actual_frames_per_cycle == FDiv(Num(tf), total_cycles)
        scaling_factor == FDiv(frames_per_cycle, actual_frames_per_cycle)
    IN  FMul(Num(f), scaling_factor)

\* cycle, the index of the current cycle
fall_cycle(max_height, f, tf) ==
    FFloor(FDiv(fall_scaled_frame(max_height, f, tf),
                fall_frames_per_cycle(max_height)))

\* the loop `for layer in 0..num_layers`, from `layer` on, and the
\* statement after it; st = [scaled_frame, base_level, layer_level_min,
\* layer_level_max, current_layer]
RECURSIVE fall_layers(_, _, _)
fall_layers(layer, st, max_height) ==
    LET layer_height == layer_height_of(max_height) IN
    IF layer >= num_layers
    THEN [st EXCEPT !.base_level =
              FSub(st.base_level, FMul(st.scaled_frame, fall_speed))]
    ELSE
    LET num_frames == FAdd(FDiv(FSub(max_height,
                                     FMul(layer_height, Num(layer))),
                                fall_speed),
                           Num(pause_frames))
    IN  IF FLt(st.scaled_frame, num_frames)
        THEN LET lmin == FMax(FSub(max_height,
                                   FMul(st.scaled_frame, fall_speed)),
                              st.base_level)
             IN  [scaled_frame |-> Num(0),
                  base_level |-> FSub(st.base_level, FMul(Num(0), fall_speed)),
                  layer_level_min |-> lmin,
                  layer_level_max |-> FAdd(lmin, layer_height),
                  current_layer |-> layer]
        ELSE fall_layers(layer + 1,
                         [st EXCEPT !.scaled_frame = FSub(@, num_frames),
                                    !.base_level = FAdd(@, layer_height)],
                         max_height)

\* the geometry of one frame: base_level, layer_level_min/max, current_layer
fall_geometry(max_height, f, tf) ==
    fall_layers(0,
                [scaled_frame |-> FRem(fall_scaled_frame(max_height, f, tf),
                                       fall_frames_per_cycle(max_height)),
                 base_level |-> Num(0),
                 layer_level_min |-> Num(0),
                 layer_level_max |-> Num(0),
                 current_layer |-> 0],
                max_height)

InBand(z, g) == FGe(z, g.layer_level_min) /\ FLt(z, g.layer_level_max)

fall_down(cs, f, tf) ==
    IF ~HasMaxHeight(cs) THEN Panic("unwrap_none")
    ELSE
    LET max_height == max_height_of(cs)
        c == saturated_color(FMul(fall_cycle(max_height, f, tf), hue_step))
        g == fall_geometry(max_height, f, tf)
    IN  Ok([i \in 1..Len(cs) |->
              IF FLt(cs[i][3], g.base_level) \/ InBand(cs[i][3], g)
              THEN c ELSE Black])

\* colors[layer], layer in 0..num_layers-1
rainbow_color(layer, cycle) ==
    saturated_color(FMul(FAdd(Num(layer), FMul(Num(num_layers), cycle)),
                         hue_step))

\* the index (coord.2 / layer_height) as usize
rainbow_index(z, max_height) == AsUsize(FDiv(z, layer_height_of(max_height)))

\* fall_down_rainbow with the settled points recoloured by the layer that is
\* falling: colors[current_layer] below the base level too
fall_down_rainbow_recolored(cs, f, tf) ==
    IF ~HasMaxHeight(cs) THEN Panic("unwrap_none")
    ELSE
    LET max_height == max_height_of(cs)
        cycle == fall_cycle(max_height, f, tf)
        g == fall_geometry(max_height, f, tf)
        below == {i \in 1..Len(cs) : FLt(cs[i][3], g.base_level)}
    IN  IF \E i \in below : rainbow_index(cs[i][3], max_height) >= num_layers
        THEN Panic("index_out_of_bounds")
        ELSE Ok([i \in 1..Len(cs) |->
                   IF i \in below \/ InBand(cs[i][3], g)
                   THEN rainbow_color(g.current_layer, cycle)
                   ELSE Black])

fall_down_rainbow(cs, f, tf) ==
    IF ~HasMaxHeight(cs) THEN Panic("unwrap_none")
    ELSE
    LET max_height == max_height_of(cs)
        cycle == fall_cycle(max_height, f, tf)
        g == fall_geometry(max_height, f, tf)
        below == {i \in 1..Len(cs) : FLt(cs[i][3], g.base_level)}
    IN  IF \E i \in below : rainbow_index(cs[i][3], max_height) >= num_layers
        THEN Panic("index_out_of_bounds")
        ELSE Ok([i \in 1..Len(cs) |->
                   IF i \in below
                   THEN rainbow_color(rainbow_index(cs[i][3], max_height), cycle)
                   ELSE IF InBand(cs[i][3], g)
                   THEN rainbow_color(g.current_layer, cycle)
                   ELSE Black])

-----------------------------------------------------------------------------
(* Trigonometry.  std's PI, sin, cos and atan2 have no exact fractions.     *)
(* PI stands for f32::consts::PI wherever the source writes it.  Sine is    *)
(* evaluated on the angle reduced modulo 2*PI (with the same PI), taken to  *)
(* a whole degree (an angle between two degrees goes to the one nearer the  *)
(* extremum of its half wave, so the sign is kept), by Bhaskara's rational  *)
(* approximation: the sign of the result and its values at the multiples   *)
(* of PI/2 are exact, the absolute error stays below 0.02.                  *)

PI == Frac(355, 113)

\* the whole degree standing for t turns, 0 <= t < 1
Degree(t) ==
    LET d == FMul(t, Num(360))
        k == IFloor(d)
    IN  IF d[2] = 1 THEN k ELSE IF k % 180 < 90 THEN k + 1 ELSE k

\* sin of d degrees, 0 <= d <= 180
HalfWaveSin(d) ==
    Frac(4 * d * (180 - d), 40500 - d * (180 - d))

Sin(x) ==
    IF ~IsFinite(x) THEN NaN
    ELSE LET turns == FDiv(x, FMul(Num(2), PI))
             d == Degree(FSub(turns, FFloor(turns)))
         IN  IF d > 180 THEN Neg(HalfWaveSin(d - 180)) ELSE HalfWaveSin(d)

Cos(x) == Sin(FAdd(x, FMul(PI, Frac(1, 2))))

\* f32::atan2(x, y) = x.atan2(y), for the directions the model's points lie
\* in: on an axis of the x-y plane
atan2(x, y) ==
    CASE x[1] = 0 /\ y[1] >= 0 -> Num(0)
      [] x[1] = 0 /\ y[1] < 0  -> PI
      [] x[1] > 0 /\ y[1] = 0  -> FMul(PI, Frac(1, 2))
      [] x[1] < 0 /\ y[1] = 0  -> FMul(PI, Frac(-1, 2))

-----------------------------------------------------------------------------
(* barber-pole                                                              *)

desired_speed == Frac(5, 100)

Red == <<Num(1), Num(0), Num(0)>>

Grey == <<Frac(1, 2), Frac(1, 2), Frac(1, 2)>>

barber_pole(cs, f, tf) ==
    LET complete_cycles == FFloor(FDiv(FMul(Num(tf), desired_speed),
                                       FMul(PI, Num(2))))
        actual_speed == FDiv(FMul(FMul(complete_cycles, PI), Num(2)), Num(tf))
        offset == FMul(Num(f), actual_speed)
    IN  Ok([i \in 1..Len(cs) |->
              LET angle == FAdd(FAdd(atan2(cs[i][1], cs[i][2]),
                                     FMul(cs[i][3], Num(5))),
                                offset)
              IN  IF FGt(Sin(angle), Num(0)) THEN Red ELSE Grey])

-----------------------------------------------------------------------------
(* accelerate                                                               *)

acceleration == Frac(2, 100000)

\* (frame as f32).powf(2.2), approximated from below by
\* frame^2 * floor(10 * frame^(1/5)) / 10
Powf22(f) ==
    LET r == CHOOSE k \in 0..63 :
                 k * k * k * k * k <= f * 100000
                 /\ f * 100000 < (k + 1) * (k + 1) * (k + 1) * (k + 1) * (k + 1)
    IN  FMul(Num(f * f), Frac(r, 10))

accelerate(cs, f, tf) ==
    IF ~HasMaxHeight(cs) THEN Panic("unwrap_none")
    ELSE
    LET base_dist == FMul(acceleration, Powf22(f))
        max_height == max_height_of(cs)
        level_height == FDiv(max_height, Num(4))
        double_height == FMul(level_height, Num(2))
    IN  Ok([i \in 1..Len(cs) |->
              LET dist == FAdd(base_dist, cs[i][3])
                  color_index == AsUsize(FDiv(dist, double_height))
              IN  IF FLt(FRem(dist, double_height), level_height)
                  THEN saturated_color(FMul(Num(color_index), hue_step))
                  ELSE Black])

-----------------------------------------------------------------------------
(* roll-around                                                              *)

frames_per_rotation == 60

rotations_per_cycle == 8

lerp(a, b, c) == FAdd(FMul(a, FSub(Num(1), c)), FMul(b, c))

angle_values ==
    <<FMul(PI, Frac(1, 2)), FMul(PI, Frac(1, 2)), Num(0), Num(0),
      FMul(PI, Frac(-1, 2)), FMul(PI, Frac(-1, 2)), Num(0), Num(0)>>

\* scaled_frame, rotation_index and lerp_factor of one frame (num_cycles > 0)
roll_phase(f, tf) ==
    LET frames_per_cycle == frames_per_rotation * rotations_per_cycle
        num_cycles == tf \div frames_per_cycle
        actual_frames == tf \div num_cycles
        scaling_factor == FDiv(Num(actual_frames), Num(tf))
        scaled_frame == FRem(FMul(Num(f), scaling_factor), Num(frames_per_cycle))
        rotation_progress == FDiv(scaled_frame, Num(frames_per_rotation))
    IN  [scaled_frame |-> scaled_frame,
         rotation_index |-> AsUsize(rotation_progress),
         lerp_factor |-> FMin(FMul(FFract(rotation_progress), Num(2)), Num(1))]

\* the hue index of one point under the two rotations
roll_quadrant(p, z_angle, x_angle, z_offset) ==
    LET zs == Sin(z_angle)
        zc == Cos(z_angle)
        xs == Sin(x_angle)
        xc == Cos(x_angle)
        a  == <<p[1], p[2], FSub(p[3], z_offset)>>
        b  == <<FSub(FMul(a[1], zc), FMul(a[2], zs)),
                FAdd(FMul(a[1], zs), FMul(a[2], zc)),
                a[3]>>
        c  == <<b[1],
                FSub(FMul(b[2], xc), FMul(b[3], xs)),
                FAdd(FMul(b[2], xs), FMul(b[3], xc))>>
    IN  (IF FGt(c[1], Num(0)) THEN 1 ELSE 0)
        + (IF FGt(c[2], Num(0)) THEN 2 ELSE 0)
        + (IF FGt(c[3], Num(0)) THEN 4 ELSE 0)

roll_around(cs, f, tf) ==
    IF tf \div (frames_per_rotation * rotations_per_cycle) = 0
    THEN Panic("divide_by_zero")
    ELSE
    LET ph == roll_phase(f, tf)
        ri == ph.rotation_index
    IN  IF ri >= Len(angle_values) THEN Panic("index_out_of_bounds")
        ELSE
        LET z_angle_start == angle_values[ri + 1]
            z_angle_end == angle_values[((ri + 1) % 8) + 1]
            x_angle_start == z_angle_end
            x_angle_end == angle_values[((ri + 2) % 8) + 1]
            z_angle == lerp(z_angle_start, z_angle_end, ph.lerp_factor)
            x_angle == lerp(x_angle_start, x_angle_end, ph.lerp_factor)
        IN  IF ~HasMaxHeight(cs) THEN Panic("unwrap_none")
            ELSE
            LET z_offset == FDiv(max_height_of(cs), Num(2))
            IN  Ok([i \in 1..Len(cs) |->
                      saturated_color(FMul(
                          Num(roll_quadrant(cs[i], z_angle, x_angle, z_offset)),
                          hue_step))])

-----------------------------------------------------------------------------
(* twinkle.  StdRng (the rand crate) is not part of the repository: its     *)
(* output is replaced by a linear congruential generator.  What the model   *)
(* keeps is the source's use of it: a generator seeded with the constant 42 *)
(* inside every call, driving rand's Fisher-Yates shuffle.                  *)

num_phases == 4

rng_seed == 42

RngNext(s) == (s * 75 + 74) % 65537

\* SliceRandom::shuffle: for i in (1..len).rev() { swap(i, gen_range(0..=i)) }
\* on the 0-based slice; i is the 0-based index
RECURSIVE Shuffle(_, _, _)
Shuffle(v, i, s) ==
    IF i < 1 THEN v
    ELSE LET s1 == RngNext(s)
             j == s1 % (i + 1)
         IN  Shuffle([v EXCEPT ![i + 1] = v[j + 1], ![j + 1] = v[i + 1]],
                     i - 1, s1)

twinkle_phases(n) ==
    Shuffle([i \in 1..n |-> (i - 1) % num_phases], n - 1, rng_seed)

phase_hue_step == Frac(3, 10)

twinkle(cs, f, tf) ==
    LET phases == twinkle_phases(Len(cs))
        angle == FDiv(FMul(FMul(Num(f), PI), Num(6)), Num(tf))
    IN  Ok([i \in 1..Len(cs) |->
              LET phase == phases[i]
                  phase_color == saturated_color(FMul(Num(phase), phase_hue_step))
                  phase_angle == FSub(FDiv(FMul(FMul(Num(phase), PI), Num(2)),
                                           Num(num_phases)),
                                      angle)
                  brightness == FMax(Sin(phase_angle), Num(0))
              IN  Scale(phase_color, brightness)])

-----------------------------------------------------------------------------
(* The effect registry of `main` and the inputs of the model                *)

EffectNames ==
    {"barber-pole", "fill-up", "snake", "fall-down", "fall-down-rainbow",
     "accelerate", "roll-around", "twinkle"}

\* the function `match opt.effect.as_str()` selects, applied
EffectFn(name, cs, f, tf) ==
    CASE name = "barber-pole"       -> barber_pole(cs, f, tf)
      [] name = "fill-up"           -> fill_up(cs, f, tf)
      [] name = "snake"             -> snake(cs, f, tf)
      [] name = "fall-down"         -> fall_down(cs, f, tf)
      [] name = "fall-down-rainbow" -> fall_down_rainbow(cs, f, tf)
      [] name = "accelerate"        -> accelerate(cs, f, tf)
      [] name = "roll-around"       -> roll_around(cs, f, tf)
      [] name = "twinkle"           -> twinkle(cs, f, tf)

\* Point clouds: the first n points of a pool of eight directions, repeated,
\* scaled to height h.  The pool has points on the vertical axis at heights
\* 1, 0, 1/4 and 3/4 of h and points at half height on the four horizontal
\* half-axes.
PointPool ==
    <<  <<0, 0, Frac(1, 1)>>,  <<1, 0, Frac(1, 2)>>,
        <<0, 0, Frac(0, 1)>>,  <<0, -1, Frac(1, 2)>>,
        <<0, 0, Frac(1, 4)>>,  <<-1, 0, Frac(1, 2)>>,
        <<0, 0, Frac(3, 4)>>,  <<0, 1, Frac(1, 2)>>  >>

Cloud(n, h) ==
    [i \in 1..n |->
        LET p == PointPool[((i - 1) % Len(PointPool)) + 1]
        IN  <<Num(p[1]), Num(p[2]), FMul(p[3], Num(h))>>]

MaxPoints == 21

MaxDriverPoints == 2

Heights == {0, 3, 4}

NoColor == <<>>

NoCalls == <<>>

-----------------------------------------------------------------------------
(* The driver: `main` from the loaded point cloud on.  Reading the           *)
(* coordinate file and the writes to stdout are taken to succeed.            *)

UnknownName == "sparkle"

DriverLens == {0, 1, 59, 60, 479, 480}

DriverClouds == {Cloud(n, 3) : n \in 0..MaxDriverPoints}

\* lines 37-41: the header record
HeaderRecord(cs) ==
    <<"FRAME_ID">> \o
    [k \in 1..(3 * Len(cs)) |->
        <<(CASE (k - 1) % 3 = 0 -> "R" [] (k - 1) % 3 = 1 -> "G" [] OTHER -> "B"),
          (k - 1) \div 3>>]

\* lines 61-63: the cells of one frame record, ((v * 255.0) as i32)
Quantize(row) ==
    [k \in 1..(3 * Len(row)) |->
        AsInt(FMul(row[((k - 1) \div 3) + 1][((k - 1) % 3) + 1], Num(255)))]

Init ==
    /\ pc = "start"
    /\ effect \in EffectNames \cup {UnknownName}
    /\ coords \in DriverClouds
    /\ total_frames \in DriverLens
    /\ frame = 0
    /\ header = <<>>
    /\ rows = <<>>
    /\ result = "running"
    /\ calls = 0
    /\ reported = ""
    /\ computed = NoCalls
    /\ hue = Num(0)
    /\ color = NoColor

\* lines 37-41
WriteHeader ==
    /\ pc = "start"
    /\ header' = HeaderRecord(coords)
    /\ pc' = "match"
    /\ UNCHANGED <<effect, coords, total_frames, frame, rows, result, calls,
                   reported, computed, hue, color>>

\* MatchEffect with the unknown name returned as an error
MatchEffect_Fatal ==
    /\ pc = "match"
    /\ IF effect \in EffectNames
       THEN /\ pc' = "loop"
            /\ UNCHANGED <<reported, result>>
       ELSE /\ reported' = effect
            /\ result' = "error"
            /\ pc' = "done"
    /\ UNCHANGED <<effect, coords, total_frames, frame, header, rows, calls,
                   computed, hue, color>>

\* lines 43-56
MatchEffect ==
    /\ pc = "match"
    /\ IF effect \in EffectNames
       THEN /\ pc' = "loop"
            /\ UNCHANGED <<reported, result>>
       ELSE /\ reported' = effect
            /\ result' = "ok"
            /\ pc' = "done"
    /\ UNCHANGED <<effect, coords, total_frames, frame, header, rows, calls,
                   computed, hue, color>>

\* lines 58-64 with the effect's result r: the record is written, or the
\* panic of the effect ends the process
WriteRecord(r) ==
    IF r.panic = "none"
    THEN /\ rows' = Append(rows, [id |-> frame, cells |-> Quantize(r.row)])
         /\ frame' = frame + 1
         /\ UNCHANGED <<pc, result>>
    ELSE /\ result' = r.panic
         /\ pc' = "done"
         /\ UNCHANGED <<rows, frame>>

\* WriteFrame over the inclusive range 0..=opt.len
WriteFrame_Inclusive ==
    /\ pc = "loop"
    /\ frame <= total_frames
    /\ calls' = calls + 1
    /\ WriteRecord(EffectFn(effect, coords, frame, total_frames))
    /\ UNCHANGED <<effect, coords, total_frames, header, reported, computed,
                   hue, color>>

\* lines 57-65: one iteration of `for frame in 0..opt.len`
WriteFrame ==
    /\ pc = "loop"
    /\ frame < total_frames
    /\ calls' = calls + 1
    /\ WriteRecord(EffectFn(effect, coords, frame, total_frames))
    /\ UNCHANGED <<effect, coords, total_frames, header, reported, computed,
                   hue, color>>

\* lines 57 and 67: the range is exhausted, main returns Ok(())
Finish ==
    /\ pc = "loop"
    /\ frame >= total_frames
    /\ result' = "ok"
    /\ pc' = "done"
    /\ UNCHANGED <<effect, coords, total_frames, frame, header, rows, calls,
                   reported, computed, hue, color>>

Next == WriteHeader \/ MatchEffect \/ WriteFrame \/ Finish

Spec == Init /\ [][Next]_vars

-----------------------------------------------------------------------------
(* Frame workers: effect calls for chosen frame indices of one sequence, in  *)
(* any order.  Index total_frames is the wrap-around frame a looping player  *)
(* would show next.                                                          *)

FrameCounts == {60, 61, 125, 250, 480, 481, 1000}

FrameIndices(tf) == {0, 1, tf}

InitFrames ==
    /\ pc = "frames"
    /\ effect \in EffectNames
    /\ coords \in {Cloud(n, h) : n \in 1..MaxPoints, h \in Heights}
    /\ total_frames \in FrameCounts
    /\ frame = 0
    /\ header = <<>>
    /\ rows = <<>>
    /\ result = "running"
    /\ calls = 0
    /\ reported = ""
    /\ computed = NoCalls
    /\ hue = Num(0)
    /\ color = NoColor

ComputeFrame(f) ==
    /\ pc = "frames"
    /\ f \notin DOMAIN computed
    /\ computed' = computed @@ (f :> EffectFn(effect, coords, f, total_frames))
    /\ UNCHANGED <<pc, effect, coords, total_frames, frame, header, rows,
                   result, calls, reported, hue, color>>

NextFrames == \E f \in FrameIndices(total_frames) : ComputeFrame(f)

SpecFrames == InitFrames /\ [][NextFrames]_vars

-----------------------------------------------------------------------------
(* Driver with workers: `main` writes the frames in order while workers     *)
(* call the same effect function for frames of the same sequence at any     *)
(* time, before or after the driver reaches them.  No call takes anything   *)
(* but (coords, frame, total_frames): the functions hold no statics, and    *)
(* twinkle builds and seeds its generator inside the call.                  *)

MaxWorkerPoints == 4

WorkerLens == {1, 2, 60}

WorkerFrames(tf) == {0, tf - 1} \cap (0..(tf - 1))

InitWorkers ==
    /\ pc = "start"
    /\ effect \in EffectNames
    /\ coords \in {Cloud(n, 3) : n \in 1..MaxWorkerPoints}
    /\ total_frames \in WorkerLens
    /\ frame = 0
    /\ header = <<>>
    /\ rows = <<>>
    /\ result = "running"
    /\ calls = 0
    /\ reported = ""
    /\ computed = NoCalls
    /\ hue = Num(0)
    /\ color = NoColor

\* lines 57-65 with the result r of the call for frame f: the iteration of
\* the driver's loop (WriteFrame, the call result handed in)
DriverCall(f, r) ==
    /\ pc = "loop"
    /\ frame < total_frames
    /\ f = frame
    /\ calls' = calls + 1
    /\ WriteRecord(r)
    /\ UNCHANGED <<effect, coords, total_frames, header, reported, computed,
                   hue, color>>

\* twinkle with the generator seeded by s (lines 316-337 with line 319's
\* constant replaced)
twinkle_seeded(s, cs, f, tf) ==
    LET phases == Shuffle([i \in 1..Len(cs) |-> (i - 1) % num_phases],
                          Len(cs) - 1, s)
        angle == FDiv(FMul(FMul(Num(f), PI), Num(6)), Num(tf))
    IN  Ok([i \in 1..Len(cs) |->
              LET phase == phases[i]
                  phase_color == saturated_color(FMul(Num(phase), phase_hue_step))
                  phase_angle == FSub(FDiv(FMul(FMul(Num(phase), PI), Num(2)),
                                           Num(num_phases)),
                                      angle)
                  brightness == FMax(Sin(phase_angle), Num(0))
              IN  Scale(phase_color, brightness)])

\* WorkerCall with one generator shared by all calls: a twinkle call's
\* shuffle starts where the calls before it left the generator
WorkerCall_SharedRng(f, r) ==
    /\ f \in WorkerFrames(total_frames)
    /\ f \notin DOMAIN computed
    /\ computed' = computed @@
          (f :> IF effect = "twinkle"
                THEN twinkle_seeded(rng_seed + Cardinality(DOMAIN computed),
                                    coords, f, total_frames)
                ELSE r)
    /\ UNCHANGED <<pc, effect, coords, total_frames, frame, header, rows,
                   result, calls, reported, hue, color>>

\* line 60 called by a worker for frame f, r the result of the call
WorkerCall(f, r) ==
    /\ f \in WorkerFrames(total_frames)
    /\ f \notin DOMAIN computed
    /\ computed' = computed @@ (f :> r)
    /\ UNCHANGED <<pc, effect, coords, total_frames, frame, header, rows,
                   result, calls, reported, hue, color>>

\* one call of the effect function (line 60), by the driver or by a worker
CallFrame ==
    \E f \in 0..(total_frames - 1) :
        LET Caller(r) == DriverCall(f, r) \/ WorkerCall(f, r)
        IN  Caller(EffectFn(effect, coords, f, total_frames))

NextWorkers == WriteHeader \/ MatchEffect \/ CallFrame \/ Finish

SpecWorkers == InitWorkers /\ [][NextWorkers]_vars

-----------------------------------------------------------------------------
(* Frame scan: the loop of `main` over a whole sequence of fill-up or       *)
(* fall-down-rainbow, the row of the current frame kept as the effect       *)
(* returned it (before the cast to i32).                                    *)

ScanEffects == {"fill-up", "fall-down-rainbow"}

MaxFillFrames == 186

RainbowCounts == {250, 481}

ScanCounts(name) ==
    IF name = "fill-up" THEN desired_frames_per_fill..MaxFillFrames
    ELSE RainbowCounts

ScanHeights == {3, 4}

\* points on the vertical axis at 0, 1, 5, 8, 11, 15 and 16 sixteenths of h
ScanCloud(h) ==
    [i \in 1..7 |->
        <<Num(0), Num(0), Frac(<<0, 1, 5, 8, 11, 15, 16>>[i] * h, 16)>>]

InitScan ==
    /\ pc = "scan"
    /\ effect \in ScanEffects
    /\ coords \in {ScanCloud(h) : h \in ScanHeights}
    /\ total_frames \in ScanCounts(effect)
    /\ frame = 0
    /\ header = <<>>
    /\ rows = <<>>
    /\ result = "running"
    /\ calls = 0
    /\ reported = ""
    /\ computed = NoCalls
    /\ hue = Num(0)
    /\ color = NoColor

\* lines 57-60: the call for the first frame, then for the frame after the
\* current one
ScanFrame ==
    /\ pc = "scan"
    /\ LET f == IF computed = NoCalls THEN 0 ELSE frame + 1
       IN  /\ f < total_frames
           /\ frame' = f
           /\ computed' = (f :> EffectFn(effect, coords, f, total_frames))
    /\ UNCHANGED <<pc, effect, coords, total_frames, header, rows, result,
                   calls, reported, hue, color>>

NextScan == ScanFrame

SpecScan == InitScan /\ [][NextScan]_vars

-----------------------------------------------------------------------------
(* Hue harness: saturated_color on a grid of hues, negative ones included   *)

HueGrid == 4

HueTurns == 3

HueInputs ==
    {Frac(k, 6 * HueGrid) : k \in (-HueTurns * 6 * HueGrid)..(HueTurns * 6 * HueGrid)}

InitHue ==
    /\ pc = "hue"
    /\ effect = ""
    /\ coords = <<>>
    /\ total_frames = 0
    /\ frame = 0
    /\ header = <<>>
    /\ rows = <<>>
    /\ result = "running"
    /\ calls = 0
    /\ reported = ""
    /\ computed = NoCalls
    /\ hue \in HueInputs
    /\ color = NoColor

\* a first call, on the hue drawn
Evaluate ==
    /\ pc = "hue"
    /\ color = NoColor
    /\ color' = saturated_color(hue)
    /\ UNCHANGED <<pc, effect, coords, total_frames, frame, header, rows,
                   result, calls, reported, computed, hue>>

\* a further call, one whole turn on
NextTurn ==
    /\ pc = "hue"
    /\ color # NoColor
    /\ FLt(hue, Num(HueTurns))
    /\ hue' = FAdd(hue, Num(1))
    /\ color' = saturated_color(hue')
    /\ UNCHANGED <<pc, effect, coords, total_frames, frame, header, rows,
                   result, calls, reported, computed>>

NextHue == Evaluate \/ NextTurn

SpecHue == InitHue /\ [][NextHue]_vars

-----------------------------------------------------------------------------
(* Loop closure of the cyclic effects (frame workers)                       *)

WrapComputed == {0, total_frames} \subseteq DOMAIN computed

\* C1: for fall-down and fall-down-rainbow, with at least one point and
\* total_frames at least frames_per_cycle, the frame computed at index
\* total_frames gives every point the colour of the frame computed at index 0.
C1_FallLoopClosure ==
    ( /\ effect \in {"fall-down", "fall-down-rainbow"}
      /\ WrapComputed
      /\ FGe(Num(total_frames), fall_frames_per_cycle(max_height_of(coords))) )
    => computed[total_frames] = computed[0]

\* C2: for roll-around with total_frames >= 480 the scaled frame at index
\* total_frames is 0 modulo 480, so the frame computed there has the rotation
\* index, the interpolation factor and the colours of the frame at index 0.
C2_RollWholeCycles ==
    ( /\ effect = "roll-around"
      /\ WrapComputed
      /\ total_frames >= 480 )
    => /\ roll_phase(total_frames, total_frames).scaled_frame = Num(0)
       /\ roll_phase(total_frames, total_frames) = roll_phase(0, total_frames)
       /\ computed[total_frames] = computed[0]

\* C3: for fill-up, with at least one point and total_frames >= 60, the frame
\* computed at index total_frames gives every point the colour of the frame
\* computed at index 0.
C3_FillLoopClosure ==
    ( /\ effect = "fill-up"
      /\ WrapComputed
      /\ total_frames >= 60 )
    => computed[total_frames] = computed[0]

-----------------------------------------------------------------------------
(* The driver                                                               *)

\* the quantized cycle count of a cyclic effect is 0
CycleCountZero ==
    CASE effect = "fill-up"     -> total_frames < 60
      [] effect = "roll-around" -> total_frames < 480
      [] effect \in {"fall-down", "fall-down-rainbow"} ->
             FLt(Num(total_frames), fall_frames_per_cycle(max_height_of(coords)))
      [] OTHER -> FALSE

\* C4: when total_frames is 0 or below the nominal cycle length of the
\* selected cyclic effect, the generator ends with an explicit configuration
\* error, without dividing by the zero cycle count and without writing
\* colour rows derived from it.
C4_TooShortIsConfigError ==
    (pc = "done" /\ Len(coords) > 0 /\ CycleCountZero)
    => (result = "config_error" /\ rows = <<>>)

\* C5: on an empty point cloud no effect function is invoked and no frame
\* row is written, whatever the effect name and total_frames.
C5_EmptyCloudRejected ==
    Len(coords) = 0 => (calls = 0 /\ rows = <<>>)

\* C6: with an effect name outside the eight registered ones the generator
\* reports the name, invokes no effect, writes no frame row and returns
\* success.
C6_UnknownEffect ==
    effect \notin EffectNames
    => /\ calls = 0
       /\ rows = <<>>
       /\ result \in {"running", "ok"}
       /\ pc = "done" => (reported = effect /\ result = "ok")

C6_Witness ==
    /\ effect \notin EffectNames
    /\ pc = "done"
    /\ reported = effect
    /\ Len(coords) > 0
    /\ total_frames > 0

\* C7: for a recognised effect the frame rows written are those of the frame
\* indices 0, 1, ... in increasing order, each with three channels per point
\* of the cloud, and a run that returns success has written exactly
\* total_frames of them.
C7_FrameRows ==
    effect \in EffectNames
    => /\ \A k \in 1..Len(rows) :
              /\ rows[k].id = k - 1
              /\ Len(rows[k].cells) = 3 * Len(coords)
       /\ Len(rows) <= total_frames
       /\ (pc = "done" /\ result = "ok") => Len(rows) = total_frames

C7_Witness ==
    /\ effect = "roll-around"
    /\ pc = "done"
    /\ result = "ok"
    /\ Len(coords) = 2
    /\ Len(rows) = 480

-----------------------------------------------------------------------------
(* snake (frame workers)                                                    *)

MaxChannel(c) == FMax(c[1], FMax(c[2], c[3]))

\* C8: in every snake frame, with N >= 1 points, exactly min(20, N) points
\* are lit: those whose window position (i + frame) mod N is below 20; the
\* brightness of the point at position p is 1 - p/20, strictly decreasing
\* along the window; every other point is exactly black.
C8_SnakeWindow ==
    effect = "snake"
    => \A f \in DOMAIN computed :
          LET row == computed[f].row
              N == Len(coords)
              pos(i) == ((i - 1) + f) % N
              lit == {i \in 1..Len(row) : row[i] # Black}
          IN  /\ computed[f].panic = "none"
              /\ Len(row) = N
              /\ Cardinality(lit) = (IF N < 20 THEN N ELSE 20)
              /\ lit = {i \in 1..N : pos(i) < 20}
              /\ \A i \in lit : MaxChannel(row[i]) = Frac(20 - pos(i), 20)
              /\ \A i, j \in lit :
                    pos(i) < pos(j) => FGt(MaxChannel(row[i]), MaxChannel(row[j]))

C8_Witness ==
    /\ effect = "snake"
    /\ Len(coords) = 21
    /\ 1000 \in DOMAIN computed
    /\ \E i \in 1..21 : computed[1000].row[i] = Black
    /\ \E i \in 1..21 : MaxChannel(computed[1000].row[i]) = Frac(1, 20)

-----------------------------------------------------------------------------
(* The hue wheel (hue harness)                                              *)

\* C9: saturated_color has period 1 over its whole domain: the colour of
\* h + 1 is the colour of h, for negative h too.
C9_HuePeriodOne == [][color # NoColor => color' = color]_vars

SectorTable ==
    << <<Num(1), Num(0), Num(0)>>, <<Num(1), Num(1), Num(0)>>,
       <<Num(0), Num(1), Num(0)>>, <<Num(0), Num(1), Num(1)>>,
       <<Num(0), Num(0), Num(1)>>, <<Num(1), Num(0), Num(1)>> >>

FullySaturated(c) ==
    \E i, j, k \in 1..3 :
        /\ {i, j, k} = {1, 2, 3}
        /\ c[i] = Num(1)
        /\ c[j] = Num(0)
        /\ FGe(c[k], Num(0)) /\ FGe(Num(1), c[k])

\* C10: at h = 0, 1/6, ..., 5/6 the hue wheel returns the six colours of the
\* sector table, and for every h in [0, 1) one channel is 1, one is 0 and
\* the third lies in [0, 1].
C10_SectorTable ==
    color # NoColor
    => /\ \A k \in 0..5 : hue = Frac(k, 6) => color = SectorTable[k + 1]
       /\ (FGe(hue, Num(0)) /\ FLt(hue, Num(1))) => FullySaturated(color)

C10_Witness ==
    /\ hue = Frac(1, 2)
    /\ color = <<Num(0), Num(1), Num(1)>>

-----------------------------------------------------------------------------
(* Effect calls keep no state (driver with workers)                         *)

\* a lit colour scaled to full brightness
LitHue(c) == Scale(c, FDiv(Num(1), MaxChannel(c)))

-----------------------------------------------------------------------------
(* fill-up (frame scan)                                                     *)

\* the frame of a fill-up scan is computed
FillFrame == effect = "fill-up" /\ frame \in DOMAIN computed

FillCurrentColor ==
    saturated_color(FMul(Num(fill_segment(frame, total_frames)), hue_step))

FillNextColor ==
    saturated_color(FMul(Num((fill_segment(frame, total_frames) + 1)
                                 % fill_complete_fills(total_frames)),
                         hue_step))

\* C12 as stated: at every frame of segment s, points whose height is below
\* the threshold get the current segment's colour (hue 0.45 * s) and points
\* whose height is above the threshold get the next segment's colour
\* (hue 0.45 * ((s + 1) mod complete_fills)).
C12_BelowGetsCurrent ==
    FillFrame
    => \A i \in 1..Len(coords) :
          LET z == coords[i][3]
              height == fill_threshold(coords, frame, total_frames)
          IN  /\ FLt(z, height) => computed[frame].row[i] = FillCurrentColor
              /\ FGt(z, height) => computed[frame].row[i] = FillNextColor

\* C12 amended: at every frame of segment s, points whose height is above
\* the threshold get the current segment's colour (hue 0.45 * s) and points
\* whose height is at or below the threshold get the next segment's colour
\* (hue 0.45 * ((s + 1) mod complete_fills)).
C12_AboveKeepsCurrent ==
    FillFrame
    => /\ computed[frame].panic = "none"
       /\ \A i \in 1..Len(coords) :
             LET z == coords[i][3]
                 height == fill_threshold(coords, frame, total_frames)
             IN  /\ FGt(z, height) => computed[frame].row[i] = FillCurrentColor
                 /\ ~FGt(z, height) => computed[frame].row[i] = FillNextColor

C12_Witness ==
    /\ FillFrame
    /\ total_frames = 125
    /\ frame = 80
    /\ FillCurrentColor # FillNextColor
    /\ \E i, j \in 1..Len(coords) :
          /\ computed[frame].row[i] = FillCurrentColor
          /\ computed[frame].row[j] = FillNextColor
          /\ FGt(coords[i][3], coords[j][3])

\* C13 as stated: for every total_frames >= 60 and every frame in
\* [0, total_frames) the subtraction frame - base_frame does not underflow,
\* frame - base_frame never exceeds frames_per_fill, and the threshold stays
\* within [0, max_height].
C13_ThresholdInRange ==
    FillFrame
    => LET base_frame == fill_base_frame(frame, total_frames)
           height == fill_threshold(coords, frame, total_frames)
       IN  /\ computed[frame].panic = "none"
           /\ base_frame <= frame
           /\ frame - base_frame <= fill_frames_per_fill(total_frames)
           /\ FGe(height, Num(0))
           /\ FGe(max_height_of(coords), height)

\* C13 amended: for every total_frames >= 60 and every frame in
\* [0, total_frames) the subtraction frame - base_frame does not underflow
\* and the threshold is at least 0; frame - base_frame never exceeds
\* frames_per_fill + 1, and it exceeds frames_per_fill (the threshold then
\* exceeds max_height, by max_height / frames_per_fill) only when
\* total_frames is not a multiple of complete_fills.
C13_ThresholdOvershoot ==
    FillFrame
    => LET base_frame == fill_base_frame(frame, total_frames)
           frames_per_fill == fill_frames_per_fill(total_frames)
           height == fill_threshold(coords, frame, total_frames)
           max_height == max_height_of(coords)
       IN  /\ computed[frame].panic = "none"
           /\ base_frame <= frame
           /\ frame - base_frame <= frames_per_fill + 1
           /\ FGe(height, Num(0))
           /\ FGe(FDiv(FMul(max_height, Num(frames_per_fill + 1)),
                       Num(frames_per_fill)),
                  height)
           /\ total_frames % fill_complete_fills(total_frames) = 0
              => /\ frame - base_frame <= frames_per_fill
                 /\ FGe(max_height, height)

C13_Witness ==
    /\ FillFrame
    /\ total_frames = 185
    /\ frame = 123
    /\ frame - fill_base_frame(frame, total_frames) =
          fill_frames_per_fill(total_frames) + 1
    /\ FGt(fill_threshold(coords, frame, total_frames), max_height_of(coords))
    /\ computed[frame].panic = "none"

-----------------------------------------------------------------------------
(* fall-down-rainbow (frame scan)                                           *)

\* the frame of a fall-down-rainbow scan over a cloud of positive height is
\* computed
RainbowFrame ==
    /\ effect = "fall-down-rainbow"
    /\ frame \in DOMAIN computed
    /\ FGt(max_height_of(coords), Num(0))

\* the height band of point i, k = floor(z / layer_height)
RainbowBand(i) == rainbow_index(coords[i][3], max_height_of(coords))

RainbowCycle(f) == fall_cycle(max_height_of(coords), f, total_frames)

\* base_level, layer_level_min/max and current_layer of frame f
RainbowGeometry(f) == fall_geometry(max_height_of(coords), f, total_frames)

\* with the geometry g of a frame, layer RainbowBand(i) has landed on point
\* i: the point lies under the settled base level, or in the current band
\* while that band is its own layer at rest on the base level
RainbowLanded(i, g) ==
    \/ FLt(coords[i][3], g.base_level)
    \/ /\ InBand(coords[i][3], g)
       /\ g.current_layer = RainbowBand(i)
       /\ g.layer_level_min = g.base_level

\* at a frame: a lit point of band k <= 7 on which layer k has landed has
\* layer k's hue, and the index of a point below the base level is in 0..7
RainbowOwnHue ==
    RainbowFrame
    => /\ computed[frame].panic = "none"
       /\ \A g \in {RainbowGeometry(frame)} : \A i \in 1..Len(coords) :
             /\ ( /\ computed[frame].row[i] # Black
                  /\ RainbowBand(i) < num_layers
                  /\ RainbowLanded(i, g) )
                => computed[frame].row[i] =
                      rainbow_color(RainbowBand(i), RainbowCycle(frame))
             /\ FLt(coords[i][3], g.base_level)
                => RainbowBand(i) \in 0..(num_layers - 1)

\* from a frame to the next of the same cycle: a point lit by its landed
\* layer, if still lit, is still lit by its landed layer, in the same colour
RainbowKeepsHue ==
    ( /\ RainbowFrame
      /\ frame' \in DOMAIN computed'
      /\ RainbowCycle(frame') = RainbowCycle(frame) )
    => \A g \in {RainbowGeometry(frame)} : \A h \in {RainbowGeometry(frame')} :
          \A i \in 1..Len(coords) :
             ( /\ computed[frame].row[i] # Black
               /\ computed'[frame'].row[i] # Black
               /\ RainbowBand(i) < num_layers
               /\ RainbowLanded(i, g) )
             => /\ RainbowLanded(i, h)
                /\ computed'[frame'].row[i] = computed[frame].row[i]

\* C14: within one cycle of fall-down-rainbow, a point in height band k
\* (0 <= k <= 7) that is lit because layer k has landed has layer k's hue
\* ((k + 8 * cycle) * 0.45) and keeps it on every later frame of the cycle in
\* which it is lit, while layer k rests as the current band and after it is
\* counted under the base level; the colour lookup index of a point below
\* the base level is always within 0..7.
C14_LandedLayerKeepsHue == []RainbowOwnHue /\ [][RainbowKeepsHue]_vars

C14_Witness ==
    /\ RainbowFrame
    /\ total_frames = 481
    /\ RainbowCycle(frame) = Num(1)
    /\ \E i \in 1..Len(coords) :
          LET g == fall_geometry(max_height_of(coords), frame, total_frames)
          IN  /\ RainbowBand(i) = 2
              /\ g.current_layer = 5
              /\ FLt(coords[i][3], g.base_level)
              /\ computed[frame].row[i] = rainbow_color(2, Num(1))
              /\ computed[frame].row[i] # rainbow_color(5, Num(1))

=============================================================================
